---- MODULE Spec2Model ----
(***************************************************************************)
(* s3-open: fetch an S3 object into a temporary file, run the editor on    *)
(* it, and put the file back when its MD5 changed (src/main.rs).           *)
(*                                                                         *)
(* Strings are sequences of one-character strings, byte strings are        *)
(* sequences of small integers.  Option<T> is <<>> (None) or <<x>> (Some). *)
(***************************************************************************)
EXTENDS Integers, Sequences, FiniteSets, TLC

\* ------------------------------------------------------------------ bounds
\* longest object content (bytes) held by the store or written by the editor
MaxLen == 2
\* longest text after the head of the command-line argument, workflow runs
MaxObj == 2
\* longest text after the head of the command-line argument, fair runs
MaxLive == 0
\* longest text after the head of the command-line argument, resolver runs
MaxRest == 7
\* number of distinct digest values; wide enough that contents within MaxLen
\* have distinct digests, as MD5 has on short inputs
DigestSpace == 128

Bytes == {0, 1}
RestChars == {"/", ".", "a"}

Strs(S, n) == UNION {[1..k -> S] : k \in 0..n}
Contents == Strs(Bytes, MaxLen)

None == <<>>
Some(x) == <<x>>

\* ------------------------------------------------------- S3Info::from_str
Prefix == <<"s", "3", ":", "/", "/">>

\* starts_with that compares the scheme name only
starts_with_scheme(s, p) ==
    /\ Len(s) >= 3
    /\ \A i \in 1..3 : s[i] = p[i]

starts_with(s, p) ==
    /\ Len(s) >= Len(p)
    /\ \A i \in 1..Len(p) : s[i] = p[i]

strip_prefix(s, p) == SubSeq(s, Len(p) + 1, Len(s))

\* position of the first / last occurrence of character c in s, 0 if none
find(s, c) ==
    IF \E i \in 1..Len(s) : s[i] = c
    THEN CHOOSE i \in 1..Len(s) : s[i] = c /\ \A j \in 1..(i - 1) : s[j] # c
    ELSE 0

rfind(s, c) ==
    IF \E i \in 1..Len(s) : s[i] = c
    THEN CHOOSE i \in 1..Len(s) : s[i] = c /\ \A j \in (i + 1)..Len(s) : s[j] # c
    ELSE 0

\* str::split: the segments between the separators; never an empty sequence
RECURSIVE split(_, _)
split(s, c) ==
    LET i == find(s, c)
    IN IF i = 0 THEN <<s>>
       ELSE <<SubSeq(s, 1, i - 1)>> \o split(SubSeq(s, i + 1, Len(s)), c)

\* join that drops the separator
RECURSIVE join_nosep(_, _)
join_nosep(parts, c) ==
    IF parts = <<>> THEN <<>>
    ELSE parts[1] \o join_nosep(Tail(parts), c)

\* [T]::join
RECURSIVE join(_, _)
join(parts, c) ==
    IF parts = <<>> THEN <<>>
    ELSE IF Len(parts) = 1 THEN parts[1]
    ELSE parts[1] \o <<c>> \o join(Tail(parts), c)

\* the extension looked for in the key's final path segment only
extension_of_segment(key) ==
    LET i == rfind(key, ".")
    IN IF i = 0 \/ \E j \in (i + 1)..Len(key) : key[j] = "/"
       THEN None
       ELSE Some(SubSeq(key, i + 1, Len(key)))

\* str::rsplit_once mapped to its second half
extension_of(key) ==
    LET i == rfind(key, ".")
    IN IF i = 0 THEN None ELSE Some(SubSeq(key, i + 1, Len(key)))

NoInfo == [bucket |-> <<>>, key |-> <<>>, extension |-> None]

NoReq == [bucket |-> <<>>, key |-> <<>>]

S3Info_from_str(s) ==
    IF ~starts_with(s, Prefix)
    THEN [ok |-> FALSE, err |-> "missing s3:// prefix", info |-> NoInfo]
    ELSE LET parts == split(strip_prefix(s, Prefix), "/")
         IN IF parts = <<>>
            THEN [ok |-> FALSE, err |-> "missing bucket", info |-> NoInfo]
            ELSE LET key == join(Tail(parts), "/")
                 IN [ok |-> TRUE, err |-> "",
                     info |-> [bucket |-> Head(parts), key |-> key,
                               extension |-> extension_of(key)]]

\* ------------------------------------------------------------------- md5
md5_new == 0

RECURSIVE md5_consume(_, _)
md5_consume(ctx, data) ==
    IF data = <<>> THEN ctx
    ELSE md5_consume((3 * ctx + Head(data) + 1) % DigestSpace, Tail(data))

md5_finish(ctx) == ctx

md5_compute(data) == md5_finish(md5_consume(md5_new, data))

\* ------------------------------------------------------------ file model
\* File::write at offset p: the first n bytes of buf replace the bytes from p
write_at(bytes, p, buf, n) ==
    SubSeq(bytes, 1, p) \o SubSeq(buf, 1, n)
        \o SubSeq(bytes, p + n + 1, Len(bytes))

\* Write::write may accept any non-empty part of a non-empty buffer
write_amounts(buf) == 1..Len(buf)

\* Read::read_to_end from offset p
read_to_end(bytes, p) == SubSeq(bytes, p + 1, Len(bytes))

\* ----------------------------------------------------------------- state
VARIABLES
    object,           \* args.object
    pc,               \* position of main
    s3_info,          \* the parsed S3Info
    err,              \* the error main returned, "" if none
    exit,             \* process exit status, -1 while running
    remote,           \* the object's content in the bucket
    remote0,          \* its content when the run started
    getCalls,         \* get_object requests sent
    putCalls,         \* put_object requests sent
    putBody,          \* body of the last put_object request
    getReq,           \* bucket and key of the get_object request
    putReq,           \* bucket and key of the put_object request
    hist,             \* the positions main has been at, in order
    res_body,         \* bytes of res.body not yet delivered
    fetched,          \* bytes res.body has delivered
    tf,               \* "none" | "open" | "dropped"
    suffix,           \* suffix of the temporary file's name
    fileBytes,        \* content of the file the handle tf refers to
    pathBytes,        \* Option: content of the file at tf.path()
    linked,           \* tf.path() still names the file the handle refers to
    pos,              \* offset of the handle tf
    bytes_written,
    hasher,
    checksum_before,
    launched,         \* the editor was spawned
    shown,            \* content at tf.path() when the editor was spawned
    status,           \* "none" | "success" | "failure"
    final,            \* content at tf.path() when the editor exited
    fault,            \* the failure that ended the run, "" if none
    new_contents,
    checksum_after,
    releases          \* times the temporary file was removed by drop

vars == <<object, pc, hist, s3_info, err, exit, fault, remote, remote0,
          getCalls, putCalls, putBody, getReq, putReq, res_body, fetched, tf,
          suffix, fileBytes, pathBytes, linked, pos, bytes_written, hasher,
          checksum_before, launched, shown, status, final, new_contents,
          checksum_after, releases>>

netVars == <<remote, getCalls, putCalls, putBody, getReq, putReq>>
streamVars == <<res_body, fetched>>
hashVars == <<bytes_written, hasher, checksum_before>>
editVars == <<launched, shown, status, final>>
readVars == <<new_contents, checksum_after>>
tfVars == <<tf, fileBytes, pathBytes, linked, releases>>

\* heads of the argument: every proper prefix of s3://, the prefix itself,
\* and two strings that hold it or resemble it without starting with it
Heads == {SubSeq(Prefix, 1, n) : n \in 0..Len(Prefix)}
            \cup {<<"a">> \o Prefix, <<"a", "3", ":", "/", "/">>}

Objects(n) == {h \o r : h \in Heads, r \in Strs(RestChars, n)}

InitWith(objs, contents) ==
    /\ object \in objs
    /\ pc = "Start"
    /\ s3_info = NoInfo
    /\ err = ""
    /\ exit = -1
    /\ remote \in contents
    /\ remote0 = remote
    /\ getCalls = 0
    /\ putCalls = 0
    /\ putBody = <<>>
    /\ getReq = NoReq
    /\ putReq = NoReq
    /\ hist = <<"Start">>
    /\ res_body = <<>>
    /\ fetched = <<>>
    /\ tf = "none"
    /\ suffix = <<>>
    /\ fileBytes = <<>>
    /\ pathBytes = None
    /\ linked = FALSE
    /\ pos = 0
    /\ bytes_written = 0
    /\ hasher = md5_new
    /\ checksum_before = -1
    /\ launched = FALSE
    /\ shown = None
    /\ status = "none"
    /\ final = None
    /\ fault = ""
    /\ new_contents = <<>>
    /\ checksum_after = -1
    /\ releases = 0

Init == InitWith(Objects(MaxObj), Contents)

\* ------------------------------------------------------- leaving main
\* a drop that closes the handle and leaves the file in place
drop_tf_leak ==
    IF tf = "open"
    THEN /\ tf' = "dropped"
         /\ UNCHANGED <<fileBytes, pathBytes, linked, releases>>
    ELSE UNCHANGED tfVars

\* NamedTempFile's drop: removes whatever file tf.path() names
drop_tf ==
    IF tf = "open"
    THEN /\ tf' = "dropped"
         /\ pathBytes' = None
         /\ linked' = FALSE
         /\ releases' = releases + 1
         /\ UNCHANGED fileBytes
    ELSE UNCHANGED tfVars

\* main moves on to position state
Goto(state) ==
    /\ pc' = state
    /\ hist' = Append(hist, state)

\* return from main: locals are dropped, the process exits
Return(state, code, e, f) ==
    /\ Goto(state)
    /\ exit' = code
    /\ err' = e
    /\ fault' = f
    /\ drop_tf

\* --------------------------------------------------------------- actions
\* line 50
ParseOk ==
    /\ pc = "Start"
    /\ S3Info_from_str(object).ok
    /\ s3_info' = S3Info_from_str(object).info
    /\ Goto("Resolved")
    /\ UNCHANGED <<object, err, exit, fault, remote0, netVars, streamVars, tfVars,
                   suffix, pos, hashVars, editVars, readVars>>

ParseErr ==
    /\ pc = "Start"
    /\ ~S3Info_from_str(object).ok
    /\ Return("Failed", 1, S3Info_from_str(object).err, "parse")
    /\ UNCHANGED <<object, s3_info, remote0, netVars, streamVars, suffix, pos,
                   hashVars, editVars, readVars>>

\* lines 58-59: the bucket and key the get request names
get_target(info) == [bucket |-> info.bucket, key |-> info.key]

\* a put to the key named like the bucket
put_target_bucket(info) == [bucket |-> info.bucket, key |-> info.bucket]

\* lines 112-113: the bucket and key the put request names
put_target(info) == [bucket |-> info.bucket, key |-> info.key]

\* lines 56-62: the request succeeds and res.body will deliver the object
GetObjectOk ==
    /\ pc = "Resolved"
    /\ getCalls' = getCalls + 1
    /\ getReq' = get_target(s3_info)
    /\ res_body' = remote
    /\ Goto("Got")
    /\ UNCHANGED <<object, s3_info, err, exit, fault, remote, remote0, putCalls,
                   putBody, putReq, fetched, tfVars, suffix, pos, hashVars,
                   editVars,
                   readVars>>

\* lines 56-62: the request fails
GetObjectErr ==
    /\ pc = "Resolved"
    /\ getCalls' = getCalls + 1
    /\ getReq' = get_target(s3_info)
    /\ Return("Failed", 1, "fetching file from S3", "get")
    /\ UNCHANGED <<object, s3_info, remote, remote0, putCalls, putBody, putReq,
                   streamVars, suffix, pos, hashVars, editVars, readVars>>

\* suffix of the temporary file's name, lines 65-71
tf_suffix(extension) ==
    IF extension # None THEN <<".">> \o extension[1] ELSE <<>>

\* lines 66-70: a file name cannot hold a '/', so a suffix with one makes the
\* creation fail
creatable(sfx) == \A i \in 1..Len(sfx) : sfx[i] # "/"

\* the temporary file created before the get request is sent
TempfileOk_early ==
    /\ pc \in {"Resolved", "Got"}
    /\ creatable(tf_suffix(s3_info.extension))
    /\ tf' = "open"
    /\ suffix' = tf_suffix(s3_info.extension)
    /\ fileBytes' = <<>>
    /\ pathBytes' = Some(<<>>)
    /\ linked' = TRUE
    /\ pos' = 0
    /\ bytes_written' = 0
    /\ hasher' = md5_new
    /\ Goto("Fetching")
    /\ UNCHANGED <<object, s3_info, err, exit, fault, remote0, netVars,
                   streamVars, releases, checksum_before, editVars, readVars>>

\* lines 64-76: the temporary file is created, empty, at offset 0
TempfileOk ==
    /\ pc = "Got"
    /\ creatable(tf_suffix(s3_info.extension))
    /\ tf' = "open"
    /\ suffix' = tf_suffix(s3_info.extension)
    /\ fileBytes' = <<>>
    /\ pathBytes' = Some(<<>>)
    /\ linked' = TRUE
    /\ pos' = 0
    /\ bytes_written' = 0
    /\ hasher' = md5_new
    /\ Goto("Fetching")
    /\ UNCHANGED <<object, s3_info, err, exit, fault, remote0, netVars,
                   streamVars,
                   releases, checksum_before, editVars, readVars>>

\* lines 64-72: the temporary file cannot be created
TempfileErr ==
    /\ pc = "Got"
    /\ Return("Failed", 1, "creating temporary file", "tempfile")
    /\ UNCHANGED <<object, s3_info, remote0, netVars, streamVars, suffix, pos,
                   hashVars, editVars, readVars>>

\* lines 77-80, one iteration: a chunk arrives, is hashed whole, and write
\* stores its first n bytes
NextChunk ==
    /\ pc = "Fetching"
    /\ res_body # <<>>
    /\ \E k \in 1..Len(res_body) :
         LET bytes == SubSeq(res_body, 1, k)
         IN /\ res_body' = SubSeq(res_body, k + 1, Len(res_body))
            /\ fetched' = fetched \o bytes
            /\ hasher' = md5_consume(hasher, bytes)
            /\ \E n \in write_amounts(bytes) :
                 /\ fileBytes' = write_at(fileBytes, pos, bytes, n)
                 /\ pathBytes' = Some(fileBytes')
                 /\ pos' = pos + n
                 /\ bytes_written' = bytes_written + n
    /\ UNCHANGED <<object, pc, hist, s3_info, err, exit, fault, remote0,
                   netVars, tf,
                   linked, releases, suffix, checksum_before, editVars,
                   readVars>>

\* a read error taken for the end of the stream
ChunkReadErr_asEnd ==
    /\ pc = "Fetching"
    /\ fault' = "stream"
    /\ checksum_before' = md5_finish(hasher)
    /\ Goto("Fetched")
    /\ UNCHANGED <<object, s3_info, err, exit, remote0, netVars, streamVars,
                   tfVars, suffix, pos, bytes_written, hasher, editVars,
                   readVars>>

\* line 77: reading the next chunk fails
ChunkReadErr ==
    /\ pc = "Fetching"
    /\ Return("Failed", 1, "reading response body", "stream")
    /\ UNCHANGED <<object, s3_info, remote0, netVars, streamVars, suffix, pos,
                   hashVars, editVars, readVars>>

\* line 79: a chunk arrives and is hashed, and writing it fails
ChunkWriteErr ==
    /\ pc = "Fetching"
    /\ res_body # <<>>
    /\ \E k \in 1..Len(res_body) :
         /\ res_body' = SubSeq(res_body, k + 1, Len(res_body))
         /\ fetched' = fetched \o SubSeq(res_body, 1, k)
         /\ hasher' = md5_consume(hasher, SubSeq(res_body, 1, k))
    /\ Return("Failed", 1, "writing temporary file", "write")
    /\ UNCHANGED <<object, s3_info, remote0, netVars, suffix, pos,
                   bytes_written, checksum_before, editVars, readVars>>

\* lines 77, 81: the stream ends
StreamEnd ==
    /\ pc = "Fetching"
    /\ res_body = <<>>
    /\ checksum_before' = md5_finish(hasher)
    /\ Goto("Fetched")
    /\ UNCHANGED <<object, s3_info, err, exit, fault, remote0, netVars,
                   streamVars,
                   tfVars, suffix, pos, bytes_written, hasher, editVars,
                   readVars>>

\* the editor started and not waited for
SpawnOk_nowait ==
    /\ pc = "Fetched"
    /\ launched' = TRUE
    /\ shown' = pathBytes
    /\ Goto("Edited")
    /\ UNCHANGED <<object, s3_info, err, exit, fault, remote0, netVars,
                   streamVars, tfVars, suffix, pos, hashVars, status, final,
                   readVars>>

\* lines 87-91: nvim is started on tf.path()
SpawnOk ==
    /\ pc = "Fetched"
    /\ launched' = TRUE
    /\ shown' = pathBytes
    /\ Goto("Editing")
    /\ UNCHANGED <<object, s3_info, err, exit, fault, remote0, netVars,
                   streamVars,
                   tfVars, suffix, pos, hashVars, status, final, readVars>>

\* lines 87-91: nvim cannot be started
SpawnErr ==
    /\ pc = "Fetched"
    /\ Return("Failed", 1, "spawning editor", "spawn")
    /\ UNCHANGED <<object, s3_info, remote0, netVars, streamVars, suffix, pos,
                   hashVars, editVars, readVars>>

\* the editor process saves by rewriting the file at the path
EditorWrite ==
    /\ pc = "Editing"
    /\ pathBytes # None
    /\ \E c \in Contents :
         /\ pathBytes' = Some(c)
         /\ fileBytes' = IF linked THEN c ELSE fileBytes
    /\ UNCHANGED <<object, pc, hist, s3_info, err, exit, fault, remote0, netVars,
                   streamVars, tf, linked, releases, suffix, pos, hashVars,
                   editVars, readVars>>

\* the editor process saves by writing a new file and renaming it to the path
EditorReplace ==
    /\ pc = "Editing"
    /\ \E c \in Contents : pathBytes' = Some(c)
    /\ linked' = FALSE
    /\ UNCHANGED <<object, pc, hist, s3_info, err, exit, fault, remote0, netVars,
                   streamVars, tf, fileBytes, releases, suffix, pos, hashVars,
                   editVars, readVars>>

\* lines 92-95: the editor exited with status 0
WaitOk ==
    /\ pc = "Editing"
    /\ status' = "success"
    /\ final' = pathBytes
    /\ Goto("Edited")
    /\ UNCHANGED <<object, s3_info, err, exit, fault, remote0, netVars,
                   streamVars, tfVars, suffix, pos, hashVars, launched, shown,
                   readVars>>

\* an exit status that is not looked at
WaitFailure_unchecked ==
    /\ pc = "Editing"
    /\ status' = "failure"
    /\ final' = pathBytes
    /\ Goto("Edited")
    /\ UNCHANGED <<object, s3_info, err, exit, fault, remote0, netVars,
                   streamVars, tfVars, suffix, pos, hashVars, launched, shown,
                   readVars>>

\* lines 92-95: the editor exited with another status, or on a signal
WaitFailure ==
    /\ pc = "Editing"
    /\ status' = "failure"
    /\ final' = pathBytes
    /\ Return("Failed", 1, "editor exited unsuccessfully", "status")
    /\ UNCHANGED <<object, s3_info, remote0, netVars, streamVars, suffix, pos,
                   hashVars, launched, shown, readVars>>

\* line 92: waiting for the child fails
WaitErr ==
    /\ pc = "Editing"
    /\ Return("Failed", 1, "waiting for editor", "wait")
    /\ UNCHANGED <<object, s3_info, remote0, netVars, streamVars, suffix, pos,
                   hashVars, editVars, readVars>>

\* lines 97-102: seek to the start, read the handle to its end, hash
Reread ==
    /\ pc = "Edited"
    /\ new_contents' = read_to_end(fileBytes, 0)
    /\ pos' = Len(fileBytes)
    /\ checksum_after' = md5_compute(new_contents')
    /\ Goto("Decided")
    /\ UNCHANGED <<object, s3_info, err, exit, fault, remote0, netVars,
                   streamVars,
                   tfVars, suffix, hashVars, editVars>>

\* lines 97, 99: seek or read_to_end fails
RereadErr ==
    /\ pc = "Edited"
    /\ Return("Failed", 1, "reading temporary file", "reread")
    /\ UNCHANGED <<object, s3_info, remote0, netVars, streamVars, suffix, pos,
                   hashVars, editVars, readVars>>

\* a skip path that puts the unchanged content back
Skip_put ==
    /\ pc = "Decided"
    /\ checksum_before = checksum_after
    /\ putCalls' = putCalls + 1
    /\ putReq' = put_target(s3_info)
    /\ putBody' = new_contents
    /\ remote' = new_contents
    /\ Return("Skipped", 0, "", "")
    /\ UNCHANGED <<object, s3_info, remote0, getCalls, getReq, streamVars,
                   suffix, pos,
                   hashVars, editVars, readVars>>

\* lines 104-107
Skip ==
    /\ pc = "Decided"
    /\ checksum_before = checksum_after
    /\ Return("Skipped", 0, "", "")
    /\ UNCHANGED <<object, s3_info, remote0, netVars, streamVars, suffix, pos,
                   hashVars, editVars, readVars>>

\* lines 109-119: the put request is sent and succeeds
PutOk ==
    /\ pc = "Decided"
    /\ checksum_before # checksum_after
    /\ putCalls' = putCalls + 1
    /\ putReq' = put_target(s3_info)
    /\ putBody' = new_contents
    /\ remote' = new_contents
    /\ Return("WrittenBack", 0, "", "")
    /\ UNCHANGED <<object, s3_info, remote0, getCalls, getReq, streamVars,
                   suffix, pos,
                   hashVars, editVars, readVars>>

\* a put failure that is dropped
PutErr_ignored ==
    /\ pc = "Decided"
    /\ checksum_before # checksum_after
    /\ putCalls' = putCalls + 1
    /\ putReq' = put_target(s3_info)
    /\ putBody' = new_contents
    /\ remote' \in {remote, new_contents}
    /\ Return("WrittenBack", 0, "", "put")
    /\ UNCHANGED <<object, s3_info, remote0, getCalls, getReq, streamVars,
                   suffix, pos,
                   hashVars, editVars, readVars>>

\* a failed put that is tried once more
PutErr_retry ==
    /\ pc = "Decided"
    /\ checksum_before # checksum_after
    /\ putCalls = 0
    /\ putCalls' = putCalls + 1
    /\ putReq' = put_target(s3_info)
    /\ putBody' = new_contents
    /\ remote' \in {remote, new_contents}
    /\ Goto("Decided")
    /\ UNCHANGED <<object, s3_info, err, exit, fault, remote0, getCalls,
                   getReq, streamVars, tfVars, suffix, pos, hashVars, editVars,
                   readVars>>

\* lines 109-117: the put request is sent and reports failure; the store has
\* applied it or not
PutErr ==
    /\ pc = "Decided"
    /\ checksum_before # checksum_after
    /\ putCalls' = putCalls + 1
    /\ putReq' = put_target(s3_info)
    /\ putBody' = new_contents
    /\ remote' \in {remote, new_contents}
    /\ Return("Failed", 1, "putting file contents back to s3", "put")
    /\ UNCHANGED <<object, s3_info, remote0, getCalls, getReq, streamVars,
                   suffix, pos,
                   hashVars, editVars, readVars>>

NextResolve == ParseOk \/ ParseErr

Next ==
    \/ ParseOk \/ ParseErr
    \/ GetObjectOk \/ GetObjectErr
    \/ TempfileOk \/ TempfileErr
    \/ NextChunk \/ ChunkReadErr \/ ChunkWriteErr \/ StreamEnd
    \/ SpawnOk \/ SpawnErr
    \/ EditorWrite \/ EditorReplace
    \/ WaitOk \/ WaitFailure \/ WaitErr
    \/ Reread \/ RereadErr
    \/ Skip \/ PutOk \/ PutErr

Spec == Init /\ [][Next]_vars

InitResolve == InitWith(Objects(MaxRest), {<<>>})

SpecResolve == InitResolve /\ [][NextResolve]_vars

\* the steps of main; each is taken once the call it waits for returns
MainStep ==
    \/ ParseOk \/ ParseErr
    \/ GetObjectOk \/ GetObjectErr
    \/ TempfileOk \/ TempfileErr
    \/ NextChunk \/ ChunkReadErr \/ ChunkWriteErr \/ StreamEnd
    \/ SpawnOk \/ SpawnErr
    \/ WaitOk \/ WaitFailure \/ WaitErr
    \/ Reread \/ RereadErr
    \/ Skip \/ PutOk \/ PutErr

InitLive == InitWith(Objects(MaxLive), Contents)

\* runs in which every external stage returns: the stream delivers or ends,
\* the editor exits, the requests are answered
LiveSpec == InitLive /\ [][Next]_vars /\ WF_vars(MainStep)

\* the run up to the creation of the temporary file, for every argument
NextScratch ==
    \/ ParseOk \/ ParseErr
    \/ GetObjectOk \/ GetObjectErr
    \/ TempfileOk \/ TempfileErr

SpecScratch == InitResolve /\ [][NextScratch]_vars

\* ---------------------------------------------------------------- claims
Terminal == pc \in {"WrittenBack", "Skipped", "Failed"}

\* the argument begins with s3://
HasPrefix == Len(object) >= 5 /\ SubSeq(object, 1, 5) = Prefix

\* the text after s3://
Rest == SubSeq(object, 6, Len(object))

HasChar(s, c) == \E i \in 1..Len(s) : s[i] = c

\* C1: in a run that ended, where the editor exited successfully, the file
\* was read back and the bytes at the scratch file's path after the editor
\* exited differ from the fetched bytes, put_object was sent exactly once and
\* its body is those bytes.
C1_Claim ==
    (Terminal /\ status = "success" /\ checksum_after # -1
        /\ final # None /\ final # Some(fetched))
    => (putCalls = 1 /\ Some(putBody) = final)

\* C2: when the editor exited successfully and left the bytes at the scratch
\* file's path as they were, put_object is never sent, and a run that ended
\* after the file was read back ended in Skipped with exit status 0.
C2_Claim ==
    (status = "success" /\ final = shown)
    => /\ putCalls = 0
       /\ (Terminal /\ checksum_after # -1) => (pc = "Skipped" /\ exit = 0)

\* C3: when the editor cannot be spawned or exits unsuccessfully, put_object
\* is never sent, the run ends in failure and the scratch file is deleted.
C3_EditorFailure ==
    (fault = "spawn" \/ status = "failure")
    => /\ putCalls = 0
       /\ pc = "Failed"
       /\ exit # 0
       /\ pathBytes = None
       /\ tf = "dropped"

C3_Witness ==
    /\ status = "failure"
    /\ final # None
    /\ final # shown
    /\ ~linked
    /\ pc = "Failed"

\* C4: when the fetch fails, at the get request or at a chunk read, no
\* scratch file exists when the run ends, the editor is never launched and
\* put_object is never sent.
C4_FetchFailure ==
    (fault \in {"get", "stream"})
    => /\ pc = "Failed"
       /\ pathBytes = None
       /\ tf # "open"
       /\ ~launched
       /\ putCalls = 0

C4_Witness ==
    /\ fault = "stream"
    /\ fetched # <<>>
    /\ res_body # <<>>
    /\ releases = 1

\* C5: in every terminal state no scratch file remains; a created scratch
\* file is released exactly once, one never created is never released.
C5_Released ==
    /\ Terminal => (pathBytes = None /\ tf # "open")
    /\ tf \in {"none", "open"} => releases = 0
    /\ tf = "dropped" => (releases = 1 /\ Terminal)

C5_Witness ==
    /\ pc = "Skipped"
    /\ releases = 1
    /\ final # None
    /\ ~linked

\* C6: the remote object is untouched or fully replaced by the put body;
\* put_object is sent only from Decided with differing checksums, and a run
\* that ends in Skipped or fails before the put leaves the object unchanged.
C6_RemoteFrame ==
    /\ remote = remote0 \/ (putCalls = 1 /\ remote = putBody)
    /\ putCalls > 0 =>
         /\ putCalls = 1
         /\ putBody = new_contents
         /\ checksum_before # checksum_after
         /\ pc = "WrittenBack" \/ (pc = "Failed" /\ fault = "put")
    /\ (pc = "Skipped" \/ (pc = "Failed" /\ fault # "put")) =>
         (remote = remote0 /\ putCalls = 0)

C6_Witness ==
    /\ pc = "WrittenBack"
    /\ remote # remote0
    /\ remote = putBody

\* C7: the exit status is 0 exactly when the run ends in WrittenBack or
\* Skipped; every failure gives a non-zero exit status.
C7_ExitStatus ==
    /\ ~Terminal => exit = -1
    /\ Terminal => (exit = 0 <=> pc \in {"WrittenBack", "Skipped"})
    /\ Terminal => (exit = 0 <=> (HasPrefix /\ fault = "" /\ status = "success"))
    /\ (fault # "" \/ status = "failure") => (Terminal /\ exit # 0)

C7_Witness ==
    /\ pc = "Failed"
    /\ fault = "put"
    /\ exit = 1
    /\ remote # remote0

\* C8: an argument that does not begin with s3:// fails with the
\* missing-prefix error and a non-zero exit, with no get, no put, no scratch
\* file and no editor.
C8_MissingScheme ==
    (~HasPrefix /\ pc # "Start")
    => /\ pc = "Failed"
       /\ err = "missing s3:// prefix"
       /\ exit # 0
       /\ getCalls = 0
       /\ putCalls = 0
       /\ tf = "none"
       /\ pathBytes = None
       /\ ~launched

C8_Witness ==
    /\ pc = "Failed"
    /\ Len(object) >= 5
    /\ SubSeq(object, 1, 3) = SubSeq(Prefix, 1, 3)
    /\ ~HasPrefix

\* C9: an argument that begins with s3:// and whose first segment is empty
\* fails with the missing-bucket error, so every S3Info has a non-empty
\* bucket.
C9_Claim ==
    /\ (HasPrefix /\ (Rest = <<>> \/ Head(Rest) = "/") /\ pc # "Start")
         => (pc = "Failed" /\ err = "missing bucket")
    /\ (pc \notin {"Start", "Failed"}) => s3_info.bucket # <<>>

\* C10: resolution of s3://rest succeeds; the bucket is the text before the
\* first '/', the key is all the text after it (empty when there is none),
\* and when the text after the key's last '.' has no '/', as in c/a/b.ext,
\* the extension is that text; without a '.' in the key there is none.
C10_Resolved ==
    (HasPrefix /\ pc # "Start")
    => /\ pc = "Resolved"
       /\ ~HasChar(s3_info.bucket, "/")
       /\ IF HasChar(Rest, "/")
          THEN Rest = s3_info.bucket \o <<"/">> \o s3_info.key
          ELSE Rest = s3_info.bucket /\ s3_info.key = <<>>
       /\ s3_info.key = <<>> => s3_info.extension = None
       /\ ~HasChar(s3_info.key, ".") <=> s3_info.extension = None
       /\ \A i \in 1..Len(s3_info.key) :
            LET ext == SubSeq(s3_info.key, i + 1, Len(s3_info.key))
            IN (s3_info.key[i] = "." /\ ~HasChar(ext, ".") /\ ~HasChar(ext, "/"))
               => s3_info.extension = Some(ext)

C10_Witness ==
    /\ pc = "Resolved"
    /\ object = Prefix \o <<"a", "/", "a", "/", "a", ".", "a">>
    /\ s3_info = [bucket |-> <<"a">>, key |-> <<"a", "/", "a", ".", "a">>,
                  extension |-> Some(<<"a">>)]

\* C11: whenever put_object is sent, its bucket and key are those of the
\* run's get_object request, which are the bucket and key that the argument
\* resolves to: the text before and after the first '/' that follows s3://.
C11_SameLocation ==
    /\ getCalls > 0 =>
         /\ HasPrefix
         /\ ~HasChar(getReq.bucket, "/")
         /\ IF HasChar(Rest, "/")
            THEN Rest = getReq.bucket \o <<"/">> \o getReq.key
            ELSE Rest = getReq.bucket /\ getReq.key = <<>>
         /\ getReq = [bucket |-> s3_info.bucket, key |-> s3_info.key]
    /\ putCalls > 0 => (getCalls = 1 /\ putReq = getReq)
    /\ putCalls = 0 => putReq = NoReq

C11_Witness ==
    /\ pc = "WrittenBack"
    /\ putCalls = 1
    /\ putReq.bucket # putReq.key
    /\ putReq.bucket = <<"a">>

\* position of the last c in s, 0 if there is none
LastIndex(s, c) ==
    IF HasChar(s, c)
    THEN CHOOSE i \in 1..Len(s) : s[i] = c /\ ~HasChar(SubSeq(s, i + 1, Len(s)), c)
    ELSE 0

AfterLast(s, c) == SubSeq(s, LastIndex(s, c) + 1, Len(s))

\* the key's final path segment
FinalSegment(key) == AfterLast(key, "/")

\* C12: the extension is the text after the last '.' in the key's final path
\* segment; a key whose final path segment has no '.' has no extension.
C12_Claim ==
    (HasPrefix /\ pc = "Resolved")
    => IF HasChar(FinalSegment(s3_info.key), ".")
       THEN s3_info.extension = Some(AfterLast(FinalSegment(s3_info.key), "."))
       ELSE s3_info.extension = None

\* C13, as claimed: once the get request has been sent the scratch file
\* already exists (it is created before the fetch request is issued).
C13_Claim == getCalls > 0 => tf # "none"

\* C13, amended: the scratch file is created only after the get request was
\* sent and succeeded, and before any chunk of the response body is read.
C13_GetThenTempfile ==
    /\ tf # "none" => (getCalls = 1 /\ fault # "get" /\ getReq = get_target(s3_info))
    /\ (pc \in {"Start", "Resolved", "Got"} \/ fault \in {"parse", "get", "tempfile"})
         => tf = "none"
    /\ tf = "none" => (fetched = <<>> /\ hasher = md5_new /\ bytes_written = 0)
    /\ pc = "Got" => (getCalls = 1 /\ res_body = remote /\ fetched = <<>>)

C13_Witness ==
    /\ pc = "Fetching"
    /\ tf = "open"
    /\ getCalls = 1
    /\ fetched = <<>>
    /\ res_body # <<>>

\* C14: when the fetch stage has completed, the scratch file holds exactly
\* the fetched chunks in delivery order, and checksum_before is the digest of
\* exactly those bytes, the bytes the editor will see.
C14_Claim ==
    pc = "Fetched"
    => /\ fetched = remote0
       /\ fileBytes = fetched
       /\ pathBytes = Some(fetched)
       /\ checksum_before = md5_compute(fetched)
       /\ checksum_before = md5_compute(fileBytes)

\* the order of the positions of main
Rank(p) ==
    CASE p = "Start" -> 0
      [] p = "Resolved" -> 1
      [] p = "Got" -> 2
      [] p = "Fetching" -> 3
      [] p = "Fetched" -> 4
      [] p = "Editing" -> 5
      [] p = "Edited" -> 6
      [] p = "Decided" -> 7
      [] OTHER -> 8

\* C15: the stages neither overlap nor run out of order: the editor is
\* launched only after the stream has ended and its last chunk was written,
\* the file is read back only after the editor has exited (and the editor
\* does not touch it afterwards), and put_object is sent only after the
\* read-back and the comparison of the checksums.
C15_Sequential ==
    /\ launched =>
         /\ res_body = <<>>
         /\ fetched = remote0
         /\ checksum_before = md5_finish(hasher)
         /\ shown # None
         /\ Len(shown[1]) = bytes_written
         /\ Rank(pc) > Rank("Fetched")
    /\ pc \in {"Start", "Resolved", "Got", "Fetching", "Fetched"} =>
         (~launched /\ status = "none" /\ checksum_after = -1 /\ putCalls = 0)
    /\ pc = "Editing" =>
         (status = "none" /\ checksum_after = -1 /\ new_contents = <<>>
            /\ putCalls = 0)
    /\ checksum_after # -1 =>
         (status = "success" /\ checksum_after = md5_compute(new_contents))
    /\ pc \in {"Edited", "Decided"} => (status = "success" /\ pathBytes = final)
    /\ putCalls > 0 =>
         (checksum_after # -1 /\ checksum_after # checksum_before
            /\ putBody = new_contents)
    /\ \A i, j \in 1..Len(hist) : i < j => Rank(hist[i]) < Rank(hist[j])

C15_Witness ==
    /\ hist = <<"Start", "Resolved", "Got", "Fetching", "Fetched", "Editing",
                "Edited", "Decided", "WrittenBack">>
    /\ Len(fetched) = MaxLen
    /\ final # shown
    /\ putCalls = 1

\* C16: the extension is the text after the last '.' found anywhere in the
\* key, absent when the key has no '.', so that key a.a/a has extension a/a;
\* a scratch file's name ends in '.' + extension when there is an extension
\* and has no suffix otherwise.
C16_ExtensionSuffix ==
    /\ (HasPrefix /\ pc # "Start") =>
         /\ s3_info.extension =
              IF HasChar(s3_info.key, ".")
              THEN Some(AfterLast(s3_info.key, "."))
              ELSE None
         /\ s3_info.key = <<"a", ".", "a", "/", "a">>
              => s3_info.extension = Some(<<"a", "/", "a">>)
    /\ tf # "none" =>
         suffix = IF s3_info.extension = None
                  THEN <<>>
                  ELSE <<".">> \o s3_info.extension[1]

C16_Witness ==
    /\ tf = "open"
    /\ s3_info.key = <<"a", ".", "a", ".", "a">>
    /\ s3_info.extension = Some(<<"a">>)
    /\ suffix = <<".", "a">>

\* the states the workflow is described by
IsWorkflowState(p) ==
    p \in {"Start", "Resolved", "Fetched", "Edited", "Decided",
           "WrittenBack", "Skipped", "Failed"}

\* C17: when every external stage returns, every run reaches a terminal
\* state, WrittenBack, Skipped or Failed, and stays in it; a run that does
\* not fail has passed Start, Resolved, Fetched, Edited, Decided in that
\* order, and no position is ever visited twice.
C17_Terminates ==
    /\ <>Terminal
    /\ [][Terminal => pc' = pc]_vars
    /\ [](\A i, j \in 1..Len(hist) : i # j => hist[i] # hist[j])
    /\ [](hist[Len(hist)] = pc)
    /\ [](pc \in {"WrittenBack", "Skipped"} =>
            SelectSeq(hist, IsWorkflowState) =
              <<"Start", "Resolved", "Fetched", "Edited", "Decided", pc>>)
    /\ [](pc = "Failed" =>
            \E n \in 1..5 :
              SelectSeq(hist, IsWorkflowState) =
                SubSeq(<<"Start", "Resolved", "Fetched", "Edited", "Decided">>,
                       1, n) \o <<"Failed">>)

C17_Witness ==
    /\ pc = "Skipped"
    /\ exit = 0
    /\ SelectSeq(hist, IsWorkflowState) =
         <<"Start", "Resolved", "Fetched", "Edited", "Decided", "Skipped">>
    /\ Len(fetched) = MaxLen
    /\ final = Some(fetched)
====
